---- MODULE Spec2Model ----
(***************************************************************************)
(* Model of the Discord media scraper: the two scraper scripts main.py and *)
(* dump_messages.py (class DiscordScraper and class Database), run against *)
(* a search server.  A table of the store is a sequence of rows in rowid   *)
(* order; None/NULL is the number 0 for cursors and "NONE" for strings.    *)
(***************************************************************************)
EXTENDS Integers, Sequences, FiniteSets, TLC

VARIABLES
    entry,        \* which program runs: see Entries
    deep,         \* args.deep_scrape of the current run
    content,      \* what the server holds for each scope (a chain of pages)
    epoch,        \* 0, and 1 once the server's urls and user names have changed
    db,           \* the SQLite store: one sequence of rows per table
    pc,           \* where the run is
    todo,         \* the guild rows still to visit in the current for-loop
    scope,        \* guild_id of the walk in progress
    req,          \* request_json["tabs"]["media"]["cursor"] timestamp (0: None)
    page,         \* the messages yielded by the generator, being processed
    sts,          \* search_timestamp yielded with the page
    oi,           \* index of the next store operation of the page
    start_count,  \* DiscordScraper.start_count
    new_count,    \* DiscordScraper.new_count (-1 before get_new_count)
    elapsed,      \* tenths of a second slept since the last search or listing request
    last,         \* the last search request and how its response was classified
    exhausted,    \* scopes whose search returned zero results in this run
    lastOp,       \* the last store operation committed
    written,      \* the cursor last written for the scope in this run; before
                  \* the first write, the cursor its walk resumed from
    calls,        \* search requests of the walk of last.scope, those answered with
                  \* the rate-limit marker not counted (counted up to CallsCap)
    listed,       \* the last listing response: its guild (NONE for the guild
                  \* listing), its status and the guilds the loop had left after it
    faulty,       \* a response other than a clean page/empty/rate-limit body was served
    stops,        \* runs stopped by the operator at a page boundary so far
    runs,         \* number of runs started
    start_files,  \* the file_ids of the media table when start_count was taken
    removed,      \* the guilds remove_guild was called for in this run
    cdl           \* dump_to_cdl.py: its arguments, its store, where it is, and
                  \* the output file

vars == <<entry, deep, content, epoch, db, pc, todo, scope, req, page, sts, oi,
          start_count, new_count, elapsed, last, exhausted, lastOp, written,
          calls, listed, faulty, stops, runs, start_files, removed, cdl>>

----------------------------------------------------------------------------
(* Bounds of the model *)

\* runs of the program against the same store
MaxRuns == 2
\* largest retry_after value (seconds) the server sends
MaxRetryAfter == 2

----------------------------------------------------------------------------
(* Values *)

NULL == 0
NONE == "NONE"
DM == "@me"

\* "main": main.py's main(); "dump": dump_messages.py's main(), which walks the
\* direct-message scope only; "dump_guilds": dump_messages.py's methods driven
\* in main.py's order (process_guild_messages, then process_dms).
Entries == {"main", "dump", "dump_guilds"}

Variant(e) == IF e = "main" THEN "main" ELSE "dump"

\* the guilds the account is a member of, as GET /users/@me/guilds lists them
ServerGuilds == << [id |-> "g1", name |-> "alpha"], [id |-> "g2", name |-> "beta"] >>

Scopes == {DM, "g1", "g2"}

\* the ids of the hard-coded filter of dump_messages.py's Database.get_guilds
AllowList == {"g1"}

Att(s, n, url, fname) == [id |-> <<s, "a", n>>, url |-> url, filename |-> fname]

Msg(s, n, text, uid, uname, atts) ==
    [id |-> <<s, "m", n>>, content |-> text, channel_id |-> <<s, "c">>,
     author |-> [id |-> uid, username |-> uname], attachments |-> atts]

\* What the server reports changes with time: the CDN signs the url of a file
\* anew and a user takes another name.  ep is 0 before the change and 1 after.
Url(n, ep) == << <<"url1", "url1b">>, <<"url2", "url2b">>, <<"url3", "url3b">> >>[n][ep + 1]

Ann(ep) == IF ep = 0 THEN "ann" ELSE "anna"

\* The page chains a scope may hold.  Page i answers the request whose cursor
\* is i-1 and carries the cursor i, or no cursor timestamp at all (0).
Chain(s, k, ep) ==
    CASE k = 0 -> << >>
      [] k = 1 ->
           << [messages |-> << Msg(s, 1, "hi", "u1", Ann(ep),
                                   << Att(s, 1, Url(1, ep), "f1"), Att(s, 2, NONE, "f2") >>),
                               Msg(s, 2, "yo", "u2", "bob", << >>) >>,
               cursor |-> 1],
              [messages |-> << Msg(s, 3, "re", "u1", Ann(ep),
                                   << Att(s, 3, Url(3, ep), "f3") >>) >>,
               cursor |-> 2] >>
      [] k = 2 ->
           << [messages |-> << Msg(s, 1, "hi", "u1", Ann(ep),
                                   << Att(s, 1, Url(1, ep), "f1") >>) >>,
               cursor |-> 1],
              [messages |-> << Msg(s, 2, "yo", "u2", "bob", << >>) >>,
               cursor |-> NULL] >>
      [] OTHER ->
           << [messages |-> << Msg(s, 1, "hi", "u1", Ann(ep), << >>) >>, cursor |-> 1],
              [messages |-> << Msg(s, 2, "yo", "u2", "bob", << Att(s, 2, NONE, "f2") >>) >>,
               cursor |-> 2] >>

ChainKinds == 0..3

\* The second guild holds nothing, or pages without a url; the other scopes
\* hold pages.  main.py ends at the first attachment with a url, where the
\* chains 1 and 2 are alike, so it is run against the chains 1 and 3.  The
\* direct messages are walked against every chain by dump_messages.py's main;
\* where its guild walk runs before them they hold the chain 1.
ChainKindsOf(e, s) ==
    IF s = "g2" THEN {0, 3}
    ELSE IF e = "main" THEN {1, 3}
    ELSE IF e = "dump_guilds" /\ s = DM THEN {1}
    ELSE ChainKinds \ {0}

\* the scopes a run of the entry searches; the others hold nothing of interest
Walked(e) ==
    CASE e = "main" -> Scopes
      [] e = "dump" -> {DM}
      [] OTHER -> {DM} \cup AllowList

----------------------------------------------------------------------------
(* class Database: every operation is one committed statement *)

AccountId == "acct"
AccountName == "me"
Token == "tok"

EmptyDb ==
    [accounts |-> << >>, users |-> << >>, guilds |-> << >>, channels |-> << >>,
     messages |-> << >>, media |-> << >>]

HasKey(tbl, key, k) == \E i \in DOMAIN tbl : tbl[i][key] = k

\* DO UPDATE SET c = excluded.c, ...: the row r with the columns of set replaced
SetColumns(r, set) ==
    [c \in DOMAIN r |-> IF c \in DOMAIN set THEN set[c] ELSE r[c]]

\* INSERT ... ON CONFLICT(key) DO UPDATE SET ...: the row with the key is
\* updated in place, and a new row is appended only when there is none.
Upsert(tbl, key, k, row, set) ==
    IF HasKey(tbl, key, k)
    THEN [i \in DOMAIN tbl |-> IF tbl[i][key] = k THEN SetColumns(tbl[i], set) ELSE tbl[i]]
    ELSE Append(tbl, row)

\* INSERT OR REPLACE: the row is deleted and written anew, its cursors lost
insert_guild_replace(d, guild_id, name) ==
    [d EXCEPT !.guilds =
        Append(SelectSeq(@, LAMBDA r : r.id # guild_id),
               [id |-> guild_id, name |-> name,
                last_media_timestamp |-> NULL, last_message_timestamp |-> NULL])]

insert_guild(d, guild_id, name) ==
    [d EXCEPT !.guilds =
        Upsert(@, "id", guild_id,
               [id |-> guild_id, name |-> name,
                last_media_timestamp |-> NULL, last_message_timestamp |-> NULL],
               [name |-> name])]

\* main.py's statement names two columns and gives three values: SQLite
\* refuses it ("3 values for 2 columns") and execute raises OperationalError.
insert_user_raises(v) == v = "main"

insert_user(d, user_id, username) ==
    [d EXCEPT !.users =
        Upsert(@, "id", user_id, [id |-> user_id, name |-> username],
               [name |-> username])]

insert_channel(d, channel_id, name, guild_id, is_nsfw, is_dm) ==
    [d EXCEPT !.channels =
        Upsert(@, "id", channel_id,
               [id |-> channel_id, name |-> name, is_dm |-> is_dm,
                is_nsfw |-> is_nsfw, guild_id |-> guild_id],
               [name |-> name, is_dm |-> is_dm, is_nsfw |-> is_nsfw])]

insert_scraping_account(d, user_id, username, token) ==
    [d EXCEPT !.accounts =
        Upsert(@, "id", user_id, [id |-> user_id, name |-> username, token |-> token],
               [name |-> username, token |-> token])]

\* a plain INSERT on a table without the key
insert_message_append(d, m) == [d EXCEPT !.messages = Append(@, m)]

insert_message(d, m) ==
    [d EXCEPT !.messages =
        Upsert(@, "id", m.id, m,
               [content |-> m.content, has_media |-> m.has_media])]

\* ON CONFLICT(file_id) DO NOTHING
insert_media_keep(d, m) ==
    [d EXCEPT !.media = Upsert(@, "file_id", m.file_id, m, [file_id |-> m.file_id])]

insert_media(d, m) ==
    [d EXCEPT !.media =
        Upsert(@, "file_id", m.file_id, m, [url |-> m.url])]

\* main.py has the one column last_timestamp (column 2 of the guilds row); it is
\* kept in the field last_media_timestamp, column 2 of dump_messages.py's row.
update_guild_timestamp(v, d, guild_id, timestamp, type) ==
    [d EXCEPT !.guilds =
        [i \in DOMAIN @ |->
            IF @[i].id # guild_id THEN @[i]
            ELSE IF v = "main" \/ type = 0
                 THEN [@[i] EXCEPT !.last_media_timestamp = timestamp]
                 ELSE [@[i] EXCEPT !.last_message_timestamp = timestamp]]]

\* a removal whose DELETE never runs
remove_guild_skipped(d, guild_id) == d

\* a removal that takes the rows that reference the guild with it
remove_guild_cascade(d, guild_id) ==
    [d EXCEPT !.guilds = SelectSeq(@, LAMBDA r : r.id # guild_id),
              !.channels = SelectSeq(@, LAMBDA r : r.guild_id # guild_id),
              !.messages = SelectSeq(@, LAMBDA r : r.guild_id # guild_id),
              !.media = SelectSeq(@, LAMBDA r : "guild_id" \in DOMAIN r => r.guild_id # guild_id)]

remove_guild(d, guild_id) ==
    [d EXCEPT !.guilds = SelectSeq(@, LAMBDA r : r.id # guild_id)]

\* a count taken from the messages table
count_media_messages(d) == Len(d.messages)

\* SELECT COUNT(*) FROM media
count_media(d) == Len(d.media)

\* the file_ids of the media table
FileIds(d) == {d.media[i].file_id : i \in DOMAIN d.media}

\* a get_guilds() that does not leave the "@me" row out
get_guilds_all(v, d) ==
    SelectSeq(d.guilds, LAMBDA r : v = "main" \/ r.id \in AllowList \cup {DM})

\* get_guilds(): the guild scopes, in rowid order; dump_messages.py keeps only
\* the ids of its hard-coded list
get_guilds(v, d) ==
    SelectSeq(d.guilds,
              LAMBDA r : r.id # DM /\ (v = "main" \/ r.id \in AllowList))

\* get_guilds(get_dms=True): fetchone() of the "@me" row; None when there is
\* none, which has_dms tells
has_dms(d) == HasKey(d.guilds, "id", DM)

get_dms(d) == SelectSeq(d.guilds, LAMBDA r : r.id = DM)[1]

----------------------------------------------------------------------------
(* DiscordScraper.process_message: the store operations of one message, in   *)
(* the order the code commits them                                            *)

\* args.store_messages = True (dump_messages.py sets it after parsing): the
\* type argument of update_guild_timestamp is 1
TimestampType == 1

MessageRow(m, guild_id, search_timestamp) ==
    [id |-> m.id, content |-> m.content, user_id |-> m.author.id,
     guild_id |-> guild_id, channel_id |-> m.channel_id, account_id |-> AccountId,
     search_timestamp |-> search_timestamp, has_media |-> m.attachments # << >>]

MediaRow(v, a, m, guild_id, search_timestamp) ==
    IF v = "main"
    THEN [file_id |-> a.id, url |-> a.url, filename |-> a.filename,
          user_id |-> m.author.id, guild_id |-> guild_id,
          channel_id |-> m.channel_id, account_id |-> AccountId,
          search_timestamp |-> search_timestamp]
    ELSE [file_id |-> a.id, url |-> a.url, filename |-> a.filename,
          message_id |-> m.id, search_timestamp |-> search_timestamp]

OpUser(m) == [op |-> "insert_user", id |-> m.author.id, name |-> m.author.username]

OpTimestamp(guild_id, search_timestamp) ==
    [op |-> "update_guild_timestamp", guild_id |-> guild_id,
     timestamp |-> search_timestamp, type |-> TimestampType]

OpChannel(v, m, guild_id) ==
    IF guild_id = DM
    THEN << [op |-> "insert_channel", id |-> m.channel_id,
             name |-> IF v = "main" THEN <<m.author.username, "DMs">> ELSE m.author.id,
             guild_id |-> guild_id] >>
    ELSE << >>

RECURSIVE AttachmentOps(_, _, _, _, _)
AttachmentOps(v, atts, m, guild_id, search_timestamp) ==
    IF atts = << >> THEN << >>
    ELSE LET a == Head(atts)
             rest == AttachmentOps(v, Tail(atts), m, guild_id, search_timestamp)
             media == [op |-> "insert_media",
                       row |-> MediaRow(v, a, m, guild_id, search_timestamp)]
         IN  IF a.url = NONE THEN rest
             ELSE IF v = "main"
                  THEN << media, OpUser(m), OpTimestamp(guild_id, search_timestamp) >>
                       \o OpChannel(v, m, guild_id) \o rest
                  ELSE << media >> \o rest

process_message(v, m, guild_id, search_timestamp) ==
    IF v = "main"
    THEN AttachmentOps(v, m.attachments, m, guild_id, search_timestamp)
    ELSE << [op |-> "insert_message", row |-> MessageRow(m, guild_id, search_timestamp)],
            OpUser(m), OpTimestamp(guild_id, search_timestamp) >>
         \o OpChannel(v, m, guild_id)
         \o AttachmentOps(v, m.attachments, m, guild_id, search_timestamp)

\* for message in messages: process_message(message, guild_id, search_timestamp)
RECURSIVE PageOps(_, _, _, _)
PageOps(v, messages, guild_id, search_timestamp) ==
    IF messages = << >> THEN << >>
    ELSE process_message(v, Head(messages), guild_id, search_timestamp)
         \o PageOps(v, Tail(messages), guild_id, search_timestamp)

OpRaises(v, op) == op.op = "insert_user" /\ insert_user_raises(v)

DbApply(v, d, op) ==
    CASE op.op = "insert_message" -> insert_message(d, op.row)
      [] op.op = "insert_user" -> insert_user(d, op.id, op.name)
      [] op.op = "update_guild_timestamp" ->
            update_guild_timestamp(v, d, op.guild_id, op.timestamp, op.type)
      [] op.op = "insert_channel" ->
            insert_channel(d, op.id, op.name, op.guild_id, FALSE, TRUE)
      [] op.op = "insert_media" -> insert_media(d, op.row)

\* the store after the operations ops[i..] of a page, stopping at the first
\* one that raises
RECURSIVE ApplyOps(_, _, _, _)
ApplyOps(v, d, ops, i) ==
    IF i > Len(ops) \/ OpRaises(v, ops[i]) THEN d
    ELSE ApplyOps(v, DbApply(v, d, ops[i]), ops, i + 1)

ApplyPage(v, d, messages, guild_id, search_timestamp) ==
    ApplyOps(v, d, PageOps(v, messages, guild_id, search_timestamp), 1)

----------------------------------------------------------------------------
(* The search server *)

\* what the server holds for the request cursor c of scope s
ServerPage(cont, ep, s, c) ==
    LET ch == Chain(s, cont[s], ep)
    IN  IF c < Len(ch) THEN ch[c + 1] ELSE [messages |-> << >>, cursor |-> NULL]

\* retry_after of a rate-limit body; -1: the field is absent
RetryAfters == -1 .. MaxRetryAfter

\* The responses the server may give to a search request: the status, whether
\* the body is JSON, its "message" text, retry_after, whether the key "tabs" is
\* present, absent or null, and tabs.media.  They are the page it holds; a 429
\* whose body carries the rate-limit marker; a body that carries the marker
\* beside the page; an error status with a JSON error body; a body whose
\* "tabs" is null; and an error status whose body is not JSON.
Responses(cont, ep, s, c) ==
    LET p == ServerPage(cont, ep, s, c)
    IN  { [status |-> 200, json |-> TRUE, message |-> "absent", retry_after |-> -1,
           tabs |-> "present", messages |-> p.messages, cursor |-> p.cursor] }
        \cup
        { [status |-> 429, json |-> TRUE, message |-> "rate limited", retry_after |-> r,
           tabs |-> "absent", messages |-> << >>, cursor |-> NULL] : r \in RetryAfters }
        \cup
        { [status |-> 200, json |-> TRUE, message |-> "rate limited", retry_after |-> 0,
           tabs |-> "present", messages |-> p.messages, cursor |-> p.cursor] }
        \cup
        { [status |-> st, json |-> TRUE, message |-> "other", retry_after |-> -1,
           tabs |-> "absent", messages |-> << >>, cursor |-> NULL] :
             st \in {403, 404, 429, 500} }
        \cup
        { [status |-> 200, json |-> TRUE, message |-> "absent", retry_after |-> -1,
           tabs |-> "null", messages |-> << >>, cursor |-> NULL] }
        \cup
        { [status |-> 500, json |-> FALSE, message |-> "absent", retry_after |-> -1,
           tabs |-> "none", messages |-> << >>, cursor |-> NULL] }

\* a response that is neither what the server holds nor a rate-limit body
IsFault(r) ==
    \/ ~r.json
    \/ r.message # "rate limited" /\ (r.status # 200 \/ r.tabs # "present")

----------------------------------------------------------------------------
(* search_guild_media / search_dm_media: one iteration of the while loop *)

\* the loop body with the test of the messages before the test of the marker
ClassifyPageFirst(r) ==
    IF ~r.json THEN "raise"
    ELSE IF r.tabs = "null" THEN "raise"
    ELSE IF r.messages # << >> THEN "page"
    ELSE IF r.message = "rate limited" THEN "ratelimited"
    ELSE "empty"

\* how the loop body treats the response; response.status is never read.
\* data.get("tabs", {}) is None when the key is there with a null value, and
\* None.get raises AttributeError.
Classify(r) ==
    IF ~r.json THEN "raise"
    ELSE IF r.message = "rate limited" THEN "ratelimited"
    ELSE IF r.tabs = "null" THEN "raise"
    ELSE IF r.messages # << >> THEN "page"
    ELSE "empty"

\* data.get("retry_after", 0)
SleepTime(r) == IF r.retry_after = -1 THEN 0 ELSE r.retry_after

\* asyncio.sleep(sleep_time), in tenths of a second
BackoffPlain(sleep_time) == sleep_time * 10

\* asyncio.sleep(sleep_time * 1.2), in tenths of a second
BackoffTenths(sleep_time) == sleep_time * 12

\* if timestamp: request_json[...]["cursor"] = {"timestamp": timestamp, ...}
NextCursor(c, timestamp) == IF timestamp # NULL THEN timestamp ELSE c

\* the count of requests stops at two more than the pages the server holds for
\* the scope: a walk that asks that often is not ending
CallsCap(cont, ep, s) == Len(Chain(s, cont[s], ep)) + 2

CountCall(n, marker, cap) ==
    IF marker \/ n >= cap THEN n ELSE n + 1

NoLast == [outcome |-> "none", marker |-> FALSE, retry |-> 0, scope |-> NONE,
           cursor |-> NULL, status |-> 0, tabs |-> "none"]
NoOp == [op |-> "none"]
NoListed == [guild |-> NONE, status |-> 0, rest |-> << >>]

----------------------------------------------------------------------------
(* The control flow of a run *)

Ctl(p, t, s, c) == [pc |-> p, todo |-> t, scope |-> s, req |-> c]

\* a resumed walk that asks for the page after the one the cursor names
FirstCursorSkips(dp, stored) == IF dp \/ stored = NULL THEN NULL ELSE stored + 1

\* "cursor": {...} if timestamp else None
FirstCursor(dp, stored) == IF dp THEN NULL ELSE stored

\* process_dms: the resume cursor is guild[3] in dump_messages.py (store_messages
\* is set) and guild[2] in main.py
StartDms(v, d, dp) ==
    LET g == get_dms(d)
    IN  IF ~has_dms(d) THEN Ctl("fatal", << >>, NONE, NULL)
        ELSE Ctl("search", << >>, DM,
                 FirstCursor(dp, IF v = "main" THEN g.last_media_timestamp
                                 ELSE g.last_message_timestamp))

\* a guild loop that is left for the direct messages before its guilds are walked
NextGuildLeftEarly(v, gs, d, dp) == StartDms(v, d, dp)

\* process_guild_messages: for guild in guilds, with last_timestamp = guild[2]
NextGuild(v, gs, d, dp) ==
    IF gs = << >> THEN StartDms(v, d, dp)
    ELSE Ctl("search", Tail(gs), Head(gs).id,
             FirstCursor(dp, Head(gs).last_media_timestamp))

\* a walk of the guilds as the server listed them, whatever rows are left
process_guild_messages_listed(v, d, dp) ==
    NextGuild(v, [i \in DOMAIN ServerGuilds |->
                    [id |-> ServerGuilds[i].id, name |-> ServerGuilds[i].name,
                     last_media_timestamp |-> NULL, last_message_timestamp |-> NULL]],
              d, dp)

process_guild_messages(v, d, dp) == NextGuild(v, get_guilds(v, d), d, dp)

\* get_guild_channels(None, None): for guild in db.get_guilds()
StartChannels(v, d, dp) ==
    LET gs == get_guilds(v, d)
    IN  IF gs = << >> THEN process_guild_messages(v, d, dp)
        ELSE Ctl("channels", gs, NONE, NULL)

\* what main() calls after get_guilds()
AfterGetGuilds(e, d, dp) ==
    CASE e = "main" -> StartChannels(Variant(e), d, dp)
      [] e = "dump" -> StartDms(Variant(e), d, dp)
      [] OTHER -> process_guild_messages(Variant(e), d, dp)

\* a loop that asks the exhausted scope again
AfterWalkAgain(v, s, t, d, dp) == Ctl("search", t, s, NULL)

\* the generator is exhausted: the next guild of the loop, then the
\* direct messages, then the report
AfterWalk(v, s, t, d, dp) ==
    IF s = DM THEN Ctl("report", << >>, NONE, NULL) ELSE NextGuild(v, t, d, dp)

SetCtl(c) == /\ pc' = c.pc
             /\ todo' = c.todo
             /\ scope' = c.scope
             /\ req' = c.req
             /\ written' = c.req

-----------------------------------------------------------------------------
(* dump_to_cdl.py: the store it reads, its arguments and what it writes       *)

\* datetime.now(), on the scale of the "ex" values of the urls below
Now == 2

\* a url of the media table: its host and the value of its query parameter
\* "ex" (-1: the url has no such parameter)
CdnUrlOf(ex) == [host |-> "cdn.discordapp.com", ex |-> ex]

CdlChannels ==
    << [id |-> "cd", name |-> "ann DMs", is_dm |-> TRUE, is_nsfw |-> FALSE, guild_id |-> DM],
       [id |-> "cn", name |-> "lounge", is_dm |-> FALSE, is_nsfw |-> TRUE, guild_id |-> "g1"] >>

\* the media rows a store may hold; the channel of the last one has no row
CdlMedia ==
    << [file_id |-> "f1", url |-> CdnUrlOf(3), content_type |-> "image/png",
        user_id |-> "u1", guild_id |-> DM, channel_id |-> "cd"],
       [file_id |-> "f2", url |-> CdnUrlOf(1), content_type |-> "video/mp4",
        user_id |-> "u1", guild_id |-> "g1", channel_id |-> "cn"],
       [file_id |-> "f3", url |-> CdnUrlOf(-1), content_type |-> "image/png",
        user_id |-> "u2", guild_id |-> "g1", channel_id |-> "cn"],
       [file_id |-> "f4", url |-> CdnUrlOf(3), content_type |-> "image/png",
        user_id |-> "u2", guild_id |-> "g1", channel_id |-> "cx"] >>

CdlUserLists ==
    { << [id |-> "u1", name |-> "ann"] >>,
      << [id |-> "u1", name |-> "ann"], [id |-> "u2", name |-> "bob"] >>,
      << [id |-> "u2", name |-> "bob"], [id |-> "u1", name |-> "ann"] >> }

\* the rows of seq whose index is in S, in the order of seq
RECURSIVE Pick(_, _, _)
Pick(seq, S, i) ==
    IF i > Len(seq) THEN << >>
    ELSE (IF i \in S THEN << seq[i] >> ELSE << >>) \o Pick(seq, S, i + 1)

CdlStores ==
    { [users |-> us, channels |-> CdlChannels, media |-> Pick(CdlMedia, S, 1)] :
        us \in CdlUserLists, S \in SUBSET DOMAIN CdlMedia }

\* parse_args: an option not given is NONE; --dm and --nsfw are "yes", "no"
\* (--no-dm, --no-nsfw) or "none"
CdlArgs ==
    [user_id : {NONE, "u1", "u2"}, guild_id : {NONE, "g1"}, channel_id : {NONE, "cn"},
     content_type : {NONE, "image/png"}, dm : {"none", "yes", "no"},
     nsfw : {"none", "yes", "no"}, fix_cdn : BOOLEAN]

CdlIdle == [pc |-> "idle"]

\* a flag filter: int(is_dm) compared with the column
FlagMatches(flag, column) ==
    flag = "none" \/ (flag = "yes" /\ column) \/ (flag = "no" /\ ~column)

\* generate_media_query and its execution: the media rows of the user that
\* join a channels row and pass the filters, in rowid order
MediaQuery(d, user_id, a) ==
    SelectSeq(d.media, LAMBDA m :
        /\ m.user_id = user_id
        /\ \E i \in DOMAIN d.channels :
              /\ d.channels[i].id = m.channel_id
              /\ FlagMatches(a.dm, d.channels[i].is_dm)
              /\ FlagMatches(a.nsfw, d.channels[i].is_nsfw)
        /\ a.guild_id # NONE => m.guild_id = a.guild_id
        /\ a.channel_id # NONE => m.channel_id = a.channel_id
        /\ a.content_type # NONE => m.content_type = a.content_type)

check_user_has_media(d, user_id, a) == MediaQuery(d, user_id, a) # << >>

\* check_cdn_expired raises TypeError when --fix-cdn is on and the url has no
\* "ex": url.query.get("ex", 0) is then the int 0, and int(0, 16) is refused
CdnRaises(url, fix_cdn) == fix_cdn /\ url.ex = -1

\* check_cdn_expired: the url, on the host fixcdn.hyonsu.com when it has expired
check_cdn_expired(url, fix_cdn) ==
    IF fix_cdn /\ url.ex <= Now THEN [url EXCEPT !.host = "fixcdn.hyonsu.com"]
    ELSE url

\* the url lines written for the rows, up to the row whose url raises
RECURSIVE UrlLines(_, _)
UrlLines(rows, fix_cdn) ==
    IF rows = << >> \/ CdnRaises(Head(rows).url, fix_cdn) THEN << >>
    ELSE << [kind |-> "url", url |-> check_cdn_expired(Head(rows).url, fix_cdn)] >>
         \o UrlLines(Tail(rows), fix_cdn)

UrlRaises(rows, fix_cdn) == \E i \in DOMAIN rows : CdnRaises(rows[i].url, fix_cdn)

\* "=== name (id)"
HeaderLine(u) == [kind |-> "header", name |-> u.name, id |-> u.id]

\* main(): the users row of --user-id
KnownUser(d, user_id) == \E i \in DOMAIN d.users : d.users[i].id = user_id

\* get_users(), or patched_get_users() when --user-id is given
CdlGetUsers(d, a) ==
    IF a.user_id = NONE THEN d.users
    ELSE SelectSeq(d.users, LAMBDA u : u.id = a.user_id)

----------------------------------------------------------------------------
(* Actions *)

Init ==
    /\ entry \in Entries
    /\ deep \in BOOLEAN
    /\ content \in {c \in [Scopes -> ChainKinds] :
                       /\ \A s \in Walked(entry) : c[s] \in ChainKindsOf(entry, s)
                       /\ \A s \in Scopes \ Walked(entry) : c[s] = 0}
    /\ epoch = 0
    /\ db = EmptyDb
    /\ pc = "async_init"
    /\ todo = << >>
    /\ scope = NONE
    /\ req = NULL
    /\ page = << >>
    /\ sts = NULL
    /\ oi = 0
    /\ start_count = 0
    /\ new_count = -1
    /\ elapsed = 0
    /\ last = NoLast
    /\ exhausted = {}
    /\ lastOp = NoOp
    /\ written = NULL
    /\ calls = 0
    /\ listed = NoListed
    /\ start_files = {}
    /\ removed = {}
    /\ cdl = CdlIdle
    /\ faulty = FALSE
    /\ stops = 0
    /\ runs = 1

\* DiscordScraper.async_init
AsyncInit ==
    /\ pc = "async_init"
    /\ LET d1 == insert_scraping_account(db, AccountId, AccountName,
                                         IF Variant(entry) = "main" THEN NONE ELSE Token)
           d2 == insert_guild(d1, DM, "DMs")
       IN  /\ db' = d2
           /\ start_count' = count_media(d2)
           /\ start_files' = FileIds(d2)
    /\ pc' = "get_guilds"
    /\ lastOp' = NoOp
    /\ UNCHANGED <<cdl, removed, entry, deep, content, epoch, todo, scope, req, page, sts, oi,
                   new_count,
                   elapsed, last, exhausted, written, calls, listed, faulty, stops,
                   runs>>

RECURSIVE InsertGuilds(_, _)
InsertGuilds(d, gs) ==
    IF gs = << >> THEN d
    ELSE InsertGuilds(insert_guild(d, Head(gs).id, Head(gs).name), Tail(gs))

\* a channel listing that never raises: any other status drops the guild
ListingClassSwallow(status) ==
    CASE status = 200 -> "ok"
      [] status = 429 -> "retry"
      [] OTHER -> "remove"

\* the branches of get_guild_channels on response.status
ListingClass(status) ==
    CASE status = 200 -> "ok"
      [] status = 429 -> "retry"
      [] status \in {403, 404} -> "remove"
      [] OTHER -> "raise"

\* a retry that does not wait
ListingSleepNone(status) == IF status = 429 THEN 5 ELSE 5

\* tenths of a second slept between a channel listing response and the next
\* channel listing request: asyncio.sleep(5) on 429, and asyncio.sleep(0.5) at
\* the top of every iteration of the loop
ListingSleep(status) == IF status = 429 THEN 50 + 5 ELSE 5

\* DiscordScraper.get_guilds, and what main() calls next
GetGuilds ==
    /\ pc = "get_guilds"
    /\ \E status \in {200, 429, 500} :
         /\ IF status = 200
            THEN /\ db' = InsertGuilds(db, ServerGuilds)
                 /\ SetCtl(AfterGetGuilds(entry, db', deep))
                 /\ UNCHANGED faulty
            ELSE /\ SetCtl(Ctl("fatal", << >>, NONE, NULL))
                 /\ faulty' = TRUE
                 /\ UNCHANGED db
         /\ listed' = [guild |-> NONE, status |-> status, rest |-> << >>]
    /\ elapsed' = IF pc' = "channels" THEN ListingSleep(200) ELSE 0
    /\ lastOp' = NoOp
    /\ last' = NoLast
    /\ UNCHANGED <<entry, deep, content, epoch, page, sts, oi, start_count, new_count,
                   exhausted, calls, stops, runs,
                   start_files, removed, cdl>>

\* the channels GET /guilds/{id}/channels lists: a text channel, a voice
\* channel and one without a type
ServerChannels(g) ==
    << [id |-> <<g, "c">>, name |-> "general", type |-> 0, nsfw |-> FALSE],
       [id |-> <<g, "v">>, name |-> "voice", type |-> 2, nsfw |-> FALSE],
       [id |-> <<g, "x">>, name |-> "odd", type |-> -1, nsfw |-> TRUE] >>

\* a listing that stores the channels of every type
StoreChannelAnyType(d, c, guild_id) ==
    insert_channel(d, c.id, c.name, guild_id, c.nsfw, FALSE)

\* one channel of the listing: only a text channel (type 0) is stored
StoreChannel(d, c, guild_id) ==
    IF c.type = 0 THEN insert_channel(d, c.id, c.name, guild_id, c.nsfw, FALSE)
    ELSE d

RECURSIVE InsertChannels(_, _, _)
InsertChannels(d, chs, guild_id) ==
    IF chs = << >> THEN d
    ELSE InsertChannels(StoreChannel(d, Head(chs), guild_id), Tail(chs), guild_id)

\* DiscordScraper.get_guild_channels: one guild of the loop.  On 429 the method
\* calls itself for this guild alone and the loop then goes on, which is a
\* retry of the same guild.
GetGuildChannels ==
    /\ pc = "channels"
    /\ todo # << >>
    /\ LET g == Head(todo).id
       IN  \E status \in {200, 429, 403, 404, 500} :
             LET class == ListingClass(status)
             IN  /\ db' = CASE class = "ok" -> InsertChannels(db, ServerChannels(g), g)
                            [] class = "remove" -> remove_guild(db, g)
                            [] OTHER -> db
                 /\ CASE class = "retry" -> UNCHANGED <<pc, todo, scope, req, written>>
                      [] class = "raise" -> SetCtl(Ctl("fatal", << >>, NONE, NULL))
                      [] OTHER ->
                           IF Tail(todo) = << >>
                           THEN SetCtl(process_guild_messages(Variant(entry), db', deep))
                           ELSE SetCtl(Ctl("channels", Tail(todo), NONE, NULL))
                 /\ elapsed' = IF pc' = "channels" THEN ListingSleep(status) ELSE 0
                 /\ removed' = IF class = "remove" THEN removed \cup {g} ELSE removed
                 /\ faulty' = (faulty \/ status \notin {200, 429})
                 /\ listed' = [guild |-> g, status |-> status, rest |-> Tail(todo)]
    /\ lastOp' = NoOp
    /\ UNCHANGED <<entry, deep, content, epoch, page, sts, oi, start_count, new_count,
                   last, exhausted, calls, stops, runs,
                   start_files, cdl>>


\* after the for-loop over a yielded page the generator resumes: the request
\* cursor moves to the page's timestamp, if it has one
Resume ==
    /\ pc' = "search"
    /\ req' = NextCursor(req, sts)
    /\ UNCHANGED <<todo, scope,
                   start_files, removed, cdl>>

\* One iteration of the while loop of search_guild_media / search_dm_media:
\* the request, its response, and what the loop body does with it up to the
\* yield, the break, the continue or the exception.
SearchStep ==
    /\ pc = "search"
    /\ \E r \in Responses(content, epoch, scope, req) :
         LET outcome == Classify(r)
             ops == PageOps(Variant(entry), r.messages, scope, r.cursor)
         IN  /\ last' = [outcome |-> outcome,
                         marker |-> (r.json /\ r.message = "rate limited"),
                         retry |-> SleepTime(r), scope |-> scope,
                         cursor |-> req, status |-> r.status, tabs |-> r.tabs]
             /\ faulty' = (faulty \/ IsFault(r))
             /\ calls' = CountCall(IF last.scope = scope THEN calls ELSE 0,
                                    r.json /\ r.message = "rate limited",
                                    CallsCap(content, epoch, scope))
             /\ elapsed' = IF outcome = "ratelimited"
                           THEN BackoffTenths(SleepTime(r)) ELSE 0
             /\ CASE outcome = "raise" ->
                       /\ SetCtl(Ctl("fatal", << >>, NONE, NULL))
                       /\ UNCHANGED <<page, sts, oi, exhausted>>
                  [] outcome = "ratelimited" ->
                       UNCHANGED <<pc, todo, scope, req, written, page, sts, oi, exhausted>>
                  [] outcome = "empty" ->
                       /\ SetCtl(AfterWalk(Variant(entry), scope, todo, db, deep))
                       /\ exhausted' = exhausted \cup {scope}
                       /\ UNCHANGED <<page, sts, oi>>
                  [] OTHER ->
                       /\ sts' = r.cursor
                       /\ UNCHANGED <<exhausted, written>>
                       /\ IF ops = << >>
                          THEN /\ pc' = "search"
                               /\ req' = NextCursor(req, r.cursor)
                               /\ UNCHANGED <<todo, scope, page, oi>>
                          ELSE /\ pc' = "process"
                               /\ page' = r.messages
                               /\ oi' = 1
                               /\ UNCHANGED <<todo, scope, req>>
    /\ lastOp' = NoOp
    /\ listed' = NoListed
    /\ UNCHANGED <<entry, deep, content, epoch, db, start_count, new_count, stops, runs,
                   start_files, removed, cdl>>

\* One store operation of process_message on the yielded page: a committed
\* statement, or the exception that ends the run.
ProcessStep ==
    /\ pc = "process"
    /\ LET ops == PageOps(Variant(entry), page, scope, sts)
           op == ops[oi]
       IN  IF OpRaises(Variant(entry), op)
           THEN /\ SetCtl(Ctl("fatal", << >>, NONE, NULL))
                /\ UNCHANGED <<db, page, oi>>
                /\ lastOp' = NoOp
           ELSE /\ db' = DbApply(Variant(entry), db, op)
                /\ lastOp' = op
                /\ written' = IF op.op = "update_guild_timestamp"
                               THEN op.timestamp ELSE written
                /\ IF oi = Len(ops)
                   THEN /\ Resume
                        /\ page' = << >>
                        /\ oi' = 0
                   ELSE /\ oi' = oi + 1
                        /\ UNCHANGED <<pc, todo, scope, req, page>>
    /\ UNCHANGED <<entry, deep, content, epoch, sts, start_count, new_count, elapsed, last,
                   exhausted, calls, listed, faulty, stops, runs,
                   start_files, removed, cdl>>

\* get_new_count and the end of main()
Report ==
    /\ pc = "report"
    /\ new_count' = count_media(db) - start_count
    /\ pc' = "done"
    /\ lastOp' = NoOp
    /\ UNCHANGED <<entry, deep, content, epoch, db, todo, scope, req, page, sts, oi,
                   start_count, elapsed, last, exhausted, written, calls, listed, faulty,
                   stops, runs,
                   start_files, removed, cdl>>

\* the operator stops the process between two pages, after a page has been
\* processed whole
Stop ==
    /\ pc = "search"
    /\ last.outcome = "page"
    /\ pc' = "stopped"
    /\ stops' = stops + 1
    /\ lastOp' = NoOp
    /\ UNCHANGED <<entry, deep, content, epoch, db, todo, scope, req, page, sts, oi,
                   start_count, new_count, elapsed, last, exhausted, written, calls,
                   listed, faulty, runs,
                   start_files, removed, cdl>>

\* the program is started again on the same store; the server may have
\* changed since the last run
StartRun ==
    /\ pc \in {"done", "stopped", "fatal"}
    /\ runs < MaxRuns
    /\ runs' = runs + 1
    /\ deep' \in BOOLEAN
    /\ epoch' \in {epoch, 1}
    /\ pc' = "async_init"
    /\ todo' = << >>
    /\ scope' = NONE
    /\ req' = NULL
    /\ page' = << >>
    /\ sts' = NULL
    /\ oi' = 0
    /\ start_count' = 0
    /\ new_count' = -1
    /\ elapsed' = 0
    /\ last' = NoLast
    /\ exhausted' = {}
    /\ lastOp' = NoOp
    /\ written' = NULL
    /\ calls' = 0
    /\ listed' = NoListed
    /\ start_files' = {}
    /\ removed' = {}
    /\ UNCHANGED <<entry, content, db, faulty, stops, cdl>>

Next ==
    \/ AsyncInit
    \/ GetGuilds
    \/ GetGuildChannels
    \/ SearchStep
    \/ ProcessStep
    \/ Report
    \/ Stop
    \/ StartRun

Spec == Init /\ [][Next]_vars

----------------------------------------------------------------------------
(* Properties *)

GuildRow(d, s) == SelectSeq(d.guilds, LAMBDA r : r.id = s)[1]

\* the column of the guilds row that update_guild_timestamp writes
WrittenCursor(v, d, s) ==
    IF v = "main" THEN GuildRow(d, s).last_media_timestamp
    ELSE GuildRow(d, s).last_message_timestamp

UrlAttachments(m) == {m.attachments[i] : i \in {j \in DOMAIN m.attachments :
                                                  m.attachments[j].url # NONE}}

\* every message of the page and every attachment with a url is in the store
PagePersisted(v, d, p) ==
    \A i \in DOMAIN p.messages :
        /\ v = "dump" => HasKey(d.messages, "id", p.messages[i].id)
        /\ \A a \in UrlAttachments(p.messages[i]) : HasKey(d.media, "file_id", a.id)

\* C1: in every state, which is a point between two committed writes, a scope
\* whose stored cursor equals the cursor of a page the server holds for it has
\* the whole page in the store: its messages and their attachments with a url.
C1_CursorOnlyAfterPage ==
    \A s \in Scopes :
        HasKey(db.guilds, "id", s) =>
            \A i \in DOMAIN Chain(s, content[s], epoch) :
                LET p == Chain(s, content[s], epoch)[i]
                IN  (p.cursor # NULL /\ WrittenCursor(Variant(entry), db, s) = p.cursor)
                        => PagePersisted(Variant(entry), db, p)

\* the store an uninterrupted walk of the pages i.. of a scope leaves
RECURSIVE WalkFrom(_, _, _, _, _)
WalkFrom(v, d, s, ch, i) ==
    IF i > Len(ch) THEN d
    ELSE WalkFrom(v, ApplyPage(v, d, ch[i].messages, s, ch[i].cursor), s, ch, i + 1)

RECURSIVE WalkScopes(_, _, _, _)
WalkScopes(v, d, ss, cont) ==
    IF ss = << >> THEN d
    ELSE WalkScopes(v, WalkFrom(v, d, Head(ss), Chain(Head(ss), cont[Head(ss)], 0), 1),
                    Tail(ss), cont)

RECURSIVE ListChannels(_, _)
ListChannels(d, gs) ==
    IF gs = << >> THEN d
    ELSE ListChannels(InsertChannels(d, ServerChannels(Head(gs)), Head(gs)), Tail(gs))

\* the guild scopes in the order the server lists them, as the entry walks them
GuildOrder(e) ==
    CASE e = "main" -> << "g1", "g2" >>
      [] e = "dump" -> << >>
      [] OTHER -> << "g1" >>

\* the store after one run from the empty store that nothing interrupts, every
\* page of every scope applied once, in order
UninterruptedDb(e, cont) ==
    LET v == Variant(e)
        d1 == insert_guild(insert_scraping_account(EmptyDb, AccountId, AccountName,
                               IF v = "main" THEN NONE ELSE Token), DM, "DMs")
        d2 == InsertGuilds(d1, ServerGuilds)
        d3 == IF e = "main" THEN ListChannels(d2, GuildOrder(e)) ELSE d2
    IN  WalkScopes(v, d3, GuildOrder(e) \o << DM >>, cont)

\* C2: a run that completes, after earlier runs that were stopped at a page
\* boundary or completed, leaves the store one uninterrupted run leaves: the
\* same rows in every table and the same cursors, when the server has not
\* changed, answers from what it holds, and a run resumed after a stop is not
\* a deep scrape.
C2_ResumeEqualsUninterrupted ==
    (pc = "done" /\ ~faulty /\ epoch = 0 /\ (stops > 0 => ~deep))
        => db = UninterruptedDb(entry, content)

\* C2 witness: a run stopped after a page, and the next run, not a deep scrape,
\* completed with the media of the later page in the store
C2_Witness ==
    /\ pc = "done" /\ ~faulty /\ epoch = 0 /\ stops = 1 /\ runs = 2 /\ ~deep
    /\ entry = "dump" /\ content[DM] = 1
    /\ Len(db.media) = 2 /\ Len(db.messages) = 3

\* C3: applying a yielded page a second time leaves every table as the first
\* application left it.
C3_PageIdempotent ==
    (pc = "process" /\ oi = 1) =>
        LET v == Variant(entry)
            once == ApplyPage(v, db, page, scope, sts)
        IN  ApplyPage(v, once, page, scope, sts) = once

\* C3 witness: a page whose file is already stored under another url is about
\* to be applied
C3_Witness ==
    /\ pc = "process" /\ oi = 1 /\ entry = "dump"
    /\ \E i \in DOMAIN page : \E a \in UrlAttachments(page[i]) :
          \E j \in DOMAIN db.media :
              db.media[j].file_id = a.id /\ db.media[j].url # a.url

\* C4: the media table never holds two rows with one file_id, and after an
\* insert_media the one row of its file_id carries the url just observed.
C4_OneRowPerFile ==
    /\ \A i, j \in DOMAIN db.media :
          db.media[i].file_id = db.media[j].file_id => i = j
    /\ lastOp.op = "insert_media" =>
          \E i \in DOMAIN db.media :
              /\ db.media[i].file_id = lastOp.row.file_id
              /\ db.media[i].url = lastOp.row.url

\* C4 witness: a file stored by an earlier run is observed again under a new
\* url: its row carries the new url and no row was added
C4_Witness ==
    /\ lastOp.op = "insert_media"
    /\ runs = 2 /\ epoch = 1 /\ count_media(db) = start_count
    /\ lastOp.row.url = Url(1, 1)
    /\ \E i \in DOMAIN db.media :
          /\ db.media[i].file_id = lastOp.row.file_id
          /\ db.media[i].url = Url(1, 1)

\* C5: in a run that is not a deep scrape, a cursor written for a scope is
\* never below the one written before it in the run, nor, for the first one,
\* below the cursor the walk resumed from.
C5_CursorWritesNonDecreasing ==
    [][(~deep /\ pc = "process" /\ lastOp'.op = "update_guild_timestamp")
            => lastOp'.timestamp >= written]_vars

\* C6: in a run that is not a deep scrape, no step turns a stored cursor of a
\* guilds row from a value into NULL.
C6_CursorNeverReset ==
    [][~deep =>
          \A i \in DOMAIN db.guilds : \A j \in DOMAIN db'.guilds :
              db.guilds[i].id = db'.guilds[j].id =>
                  /\ db.guilds[i].last_media_timestamp # NULL
                        => db'.guilds[j].last_media_timestamp # NULL
                  /\ db.guilds[i].last_message_timestamp # NULL
                        => db'.guilds[j].last_message_timestamp # NULL]_vars

\* C7: after a response that carries the rate-limit marker with retry_after r,
\* the next request of the walk comes at least 1.2 r seconds (12 r tenths)
\* later, for the same scope and with the same cursor.
C7_BackoffThenSameRequest ==
    (pc = "search" /\ last.marker) =>
        /\ elapsed >= 12 * last.retry
        /\ scope = last.scope
        /\ req = last.cursor

\* C7 witness: a request with a cursor was answered with retry_after 2 and the
\* walker is about to repeat it, 2.4 seconds later
C7_Witness ==
    /\ pc = "search" /\ last.marker /\ last.retry = 2 /\ elapsed = 24
    /\ req = 1 /\ last.cursor = 1

\* C8: a response that carries the rate-limit marker yields no page and leaves
\* the store, with every cursor in it, and the request as they were.
C8_RateLimitNoProgress ==
    [][(pc = "search" /\ last'.marker)
            => (db' = db /\ pc' = "search" /\ page' = page /\ oi' = oi
                /\ scope' = scope /\ req' = req)]_vars

\* C8 witness: a rate-limit body that came with the messages of a page, in a
\* walk that has stored media, after which no page is being processed
C8_Witness ==
    /\ pc = "search" /\ last.marker /\ last.status = 200
    /\ ServerPage(content, epoch, scope, req).messages # << >>
    /\ db.media # << >>

\* C9: a scope whose search returned zero results is not searched again in the
\* run, and the run goes on with another scope or, after the direct messages,
\* with the report.
C9_ExhaustedIsFinal ==
    /\ pc \in {"search", "process"} => scope \notin exhausted
    /\ last.outcome = "empty" =>
          /\ last.scope \in exhausted
          /\ IF last.scope = DM THEN pc \in {"report", "done"}
             ELSE pc = "search" /\ scope # last.scope

\* C9 witness: the first guild returned zero results after its pages and the
\* walk of the second guild is about to start
C9_Witness ==
    /\ last.outcome = "empty" /\ last.scope = "g1" /\ last.status = 200
    /\ last.cursor = 2 /\ pc = "search" /\ scope = "g2"

\* C10: after a search for a guild scope was answered 403 or 404 the guild is
\* not in the guilds table and the walk has moved to another scope.
C10_ForbiddenGuildRemoved ==
    (last.status \in {403, 404} /\ last.scope # DM) =>
        /\ ~HasKey(db.guilds, "id", last.scope)
        /\ scope # last.scope

\* C11: once the channel listing of a guild was answered 403 or 404 the guild
\* is not in the guilds table, no exception has ended the run, and the loop is
\* at the guild that followed it in the enumeration, or past the loop when none
\* followed.
C11_ListingDeniedRemovesGuild ==
    listed.status \in {403, 404} =>
        /\ ~HasKey(db.guilds, "id", listed.guild)
        /\ pc # "fatal"
        /\ IF listed.rest # << >> THEN pc = "channels" /\ todo = listed.rest
           ELSE pc \in {"search", "report"}

\* C11 witness: the listing of the first guild was answered 403, its row is
\* gone and the listing of the second guild is next
C11_Witness ==
    /\ listed.status = 403 /\ listed.guild = "g1"
    /\ ~HasKey(db.guilds, "id", "g1")
    /\ pc = "channels" /\ todo # << >> /\ Head(todo).id = "g2"

\* C12: after a search response with a status that is neither a success nor
\* 403, 404 or 429 the run has ended with the exception: the request is not
\* repeated and no scope is searched.
C12_OtherStatusAborts ==
    (last.outcome # "none" /\ last.status \notin {200, 403, 404, 429}) => pc = "fatal"

\* C13: after a search response with status 429 the walker has waited 5
\* seconds (50 tenths) and is about to send the same request again: the walk of
\* the scope has not ended.
C13_TooManyRequestsWaitsFive ==
    (last.outcome # "none" /\ last.status = 429) =>
        /\ pc = "search" /\ scope = last.scope /\ req = last.cursor
        /\ elapsed = 50
        /\ last.scope \notin exhausted

\* C14: a response body without the rate-limit marker whose "tabs" is missing
\* or null ends the walk of the scope as exhausted and raises nothing: the run
\* goes on.
C14_MalformedIsExhausted ==
    (last.outcome # "none" /\ ~last.marker /\ last.tabs \in {"absent", "null"}) =>
        /\ last.outcome = "empty"
        /\ last.scope \in exhausted
        /\ pc # "fatal"

\* the attachments with a url of every message of every page of a chain
ChainAttachments(ch) ==
    UNION {UNION {UrlAttachments(ch[i].messages[j]) : j \in DOMAIN ch[i].messages} :
             i \in DOMAIN ch}

\* C15: in the first run on an empty store, against a server that answers from
\* what it holds, the walk of a scope that ends with the empty page has made one
\* search request per page and one more, the media table holds exactly one row,
\* with its url, for every attachment with a url of the pages, and the media
\* cursor of the scope's guilds row is the cursor of the last page.
C15_WalkOfNPages ==
    (last.outcome = "empty" /\ ~faulty /\ runs = 1) =>
        LET ch == Chain(last.scope, content[last.scope], epoch)
        IN  /\ calls = Len(ch) + 1
            /\ \A a \in ChainAttachments(ch) :
                  Cardinality({i \in DOMAIN db.media :
                                 db.media[i].file_id = a.id /\ db.media[i].url = a.url}) = 1
            /\ Len(ch) > 0 =>
                  GuildRow(db, last.scope).last_media_timestamp = ch[Len(ch)].cursor

\* the set of the rows of a table
Rows(tbl) == {tbl[i] : i \in DOMAIN tbl}

\* C17: while a scope is searched or its page applied, the guilds enumerated
\* before it have ended their walks and those after it, and the direct
\* messages, have not begun theirs; the direct messages are searched when
\* every guild the run walks has ended its walk.
C17_ScopesInSequence ==
    pc \in {"search", "process"} =>
        LET gs == get_guilds(Variant(entry), db)
        IN  /\ DM \notin exhausted
            /\ IF scope = DM
               THEN \A i \in DOMAIN gs :
                      gs[i].id \in Walked(entry) => gs[i].id \in exhausted
               ELSE \E k \in DOMAIN gs :
                      /\ gs[k].id = scope
                      /\ \A i \in DOMAIN gs : i < k => gs[i].id \in exhausted
                      /\ \A i \in DOMAIN gs : i >= k => gs[i].id \notin exhausted
                      /\ todo = SubSeq(gs, k + 1, Len(gs))

\* C17 witness: main.py searches the direct messages after the walks of both
\* guilds have ended
C17_Witness ==
    /\ entry = "main" /\ pc = "search" /\ scope = DM
    /\ exhausted = {"g1", "g2"} /\ last.scope = "g2"

\* C18: in every state of the store each message row has its user, channel,
\* guild and account row, and each media row has its message row (in main.py,
\* whose media rows carry the references themselves, its user, channel, guild
\* and account row).
C18_ParentsExist ==
    /\ \A i \in DOMAIN db.messages :
          /\ HasKey(db.users, "id", db.messages[i].user_id)
          /\ HasKey(db.channels, "id", db.messages[i].channel_id)
          /\ HasKey(db.guilds, "id", db.messages[i].guild_id)
          /\ HasKey(db.accounts, "id", db.messages[i].account_id)
    /\ \A i \in DOMAIN db.media :
          IF Variant(entry) = "main"
          THEN /\ HasKey(db.users, "id", db.media[i].user_id)
               /\ HasKey(db.channels, "id", db.media[i].channel_id)
               /\ HasKey(db.guilds, "id", db.media[i].guild_id)
               /\ HasKey(db.accounts, "id", db.media[i].account_id)
          ELSE HasKey(db.messages, "id", db.media[i].message_id)

\* C19: remove_guild on the store of any state takes the one guilds row of the
\* guild and nothing else: the other guilds rows and every channel, user,
\* account, message and media row are as they were.
C19_RemoveGuildOnlyGuildRow ==
    \A g \in Scopes :
        LET d2 == remove_guild(db, g)
        IN  /\ d2.channels = db.channels
            /\ d2.users = db.users
            /\ d2.accounts = db.accounts
            /\ d2.messages = db.messages
            /\ d2.media = db.media
            /\ Rows(d2.guilds) = {r \in Rows(db.guilds) : r.id # g}
            /\ Len(d2.guilds) = Cardinality(Rows(d2.guilds))

\* C19 witness: the listing of a guild was answered 403 or 404 and its row
\* removed, and the channel and the media row stored for the guild by an
\* earlier run are in the store
C19_Witness ==
    /\ listed.status \in {403, 404}
    /\ ~HasKey(db.guilds, "id", listed.guild)
    /\ \E i \in DOMAIN db.channels : db.channels[i].guild_id = listed.guild
    /\ \E i \in DOMAIN db.media : db.media[i].guild_id = listed.guild

\* C20: the first search request of the walk of a scope carries no cursor in a
\* deep scrape, and otherwise the cursor stored for the scope.
C20_FirstRequestCursor ==
    (pc = "search" /\ last.scope # scope) =>
        req = IF deep THEN NULL ELSE WrittenCursor(Variant(entry), db, scope)

\* the listing response that ends the run: any status but 200 for the guild
\* listing, any status but 200, 429, 403 and 404 for a channel listing
ListingFailed(l) ==
    IF l.guild = NONE THEN l.status \notin {0, 200}
    ELSE l.status \notin {200, 429, 403, 404}

\* C21: a guild listing answered with a status other than 200, or a channel
\* listing answered with a status other than 200, 429, 403 and 404, ends the
\* run with the exception at once (no request follows it) and leaves every
\* table of the store as it was.
C21_ListingFailureAborts ==
    [][(pc \in {"get_guilds", "channels"} /\ ListingFailed(listed'))
          => (pc' = "fatal" /\ db' = db)]_vars

C21_Witness ==
    /\ pc = "fatal" /\ listed.guild = "g2" /\ listed.status = 500
    /\ HasKey(db.channels, "id", <<"g1", "c">>)
    /\ HasKey(db.guilds, "id", "g2")

\* C22: while the server answers from the finitely many pages it holds for a
\* scope (a function of the cursor of the request), the walk of the scope sends,
\* rate-limited requests aside, at most one request per page and one more, with
\* or without a cursor timestamp on the pages.
C22_WalkEndsWithinPages ==
    (last.scope # NONE /\ ~faulty) =>
        calls <= Len(Chain(last.scope, content[last.scope], epoch)) + 1

\* C23: when a run reaches the report of the new-media count, every scope
\* registered in the guilds table (the listed guilds and the direct messages)
\* has been searched in this run: its walk was started and came to its end.
C23_EveryScopeSearched ==
    pc \in {"report", "done"} =>
        \A i \in DOMAIN db.guilds : db.guilds[i].id \in exhausted

\* C24: the new-media count reported at the end of a run is the number of
\* file_ids of the media table that were not in it when async_init took the
\* start count; no file_id present then has left the table, and the count is
\* not negative.
C24_NewCountIsNewFiles ==
    /\ start_files \subseteq FileIds(db)
    /\ pc = "done" =>
          /\ new_count = Cardinality(FileIds(db) \ start_files)
          /\ new_count >= 0

C24_Witness ==
    /\ pc = "done" /\ runs = 2
    /\ start_files # {} /\ new_count > 0

\* C25: right after a channel listing of guild G answered with 200, the
\* channels table holds, for every listed channel of type 0, one row with its
\* id, name and nsfw flag under G; a listed channel of another type, or with no
\* type, has no row at any time.
C25_OnlyTextChannelsStored ==
    /\ \A g \in Scopes : \A k \in DOMAIN ServerChannels(g) :
          ServerChannels(g)[k].type # 0 =>
              ~HasKey(db.channels, "id", ServerChannels(g)[k].id)
    /\ (listed.guild # NONE /\ listed.status = 200) =>
          \A k \in DOMAIN ServerChannels(listed.guild) :
              LET c == ServerChannels(listed.guild)[k]
              IN  c.type = 0 =>
                    /\ Cardinality({i \in DOMAIN db.channels : db.channels[i].id = c.id}) = 1
                    /\ \E i \in DOMAIN db.channels :
                          db.channels[i] = [id |-> c.id, name |-> c.name, is_dm |-> FALSE,
                                            is_nsfw |-> c.nsfw, guild_id |-> listed.guild]

C25_Witness ==
    /\ listed.guild = "g2" /\ listed.status = 200
    /\ HasKey(db.channels, "id", <<"g2", "c">>)
    /\ ~HasKey(db.channels, "id", <<"g2", "v">>)

\* C26: the request that follows a non-empty page carries exactly the cursor
\* timestamp that came with that page.
C26_RequestCarriesPageCursor ==
    (pc = "search" /\ last.outcome = "page" /\ last.scope = scope) => req = sts

\* C27: in dump_messages.py the column a walk resumes from is the column the
\* processing of a page writes: when the first run on an empty store has run
\* to its end and the scope yielded at least one page in it, the first request
\* for the scope in a second run that is not a deep scrape carries the cursor
\* of the last page of the scope.
C27_ResumeColumnIsWrittenColumn ==
    (/\ Variant(entry) = "dump" /\ runs = 2 /\ stops = 0 /\ ~faulty /\ ~deep
     /\ pc = "search" /\ last.scope # scope
     /\ Chain(scope, content[scope], 0) # << >>)
        => LET ch == Chain(scope, content[scope], 0)
           IN  req = ch[Len(ch)].cursor

\* C28: insert_guild on an id the guilds table already holds sets the name of
\* that row and changes nothing else: the row keeps both cursor columns, no row
\* is added, and every other row and table is as before.
C28_InsertGuildKeepsCursors ==
    \A s \in Scopes :
        HasKey(db.guilds, "id", s) =>
            LET d2 == insert_guild(db, s, "renamed")
            IN  /\ Len(d2.guilds) = Len(db.guilds)
                /\ \A i \in DOMAIN db.guilds :
                      IF db.guilds[i].id = s
                      THEN d2.guilds[i] = [db.guilds[i] EXCEPT !.name = "renamed"]
                      ELSE d2.guilds[i] = db.guilds[i]
                /\ [d2 EXCEPT !.guilds = db.guilds] = db

C28_Witness ==
    /\ runs = 2 /\ listed.guild = NONE /\ listed.status = 200
    /\ GuildRow(db, "g1").name = "alpha"
    /\ GuildRow(db, "g1").last_message_timestamp # NULL
    /\ GuildRow(db, DM).last_message_timestamp # NULL

\* C29: in main.py no store operation of process_message raises, and once a
\* page has been processed every message of it with an attachment that has a
\* url has left a media row for each such attachment, its author is in users,
\* and the cursor of the scope's guilds row is the page's search cursor.
C29_MainProcessMessageCompletes ==
    Variant(entry) = "main" =>
        /\ ~(pc = "fatal" /\ page # << >>)
        /\ (pc = "search" /\ last.outcome = "page" /\ last.scope = scope /\ ~faulty) =>
              LET p == ServerPage(content, epoch, scope, last.cursor)
              IN  \A i \in DOMAIN p.messages :
                      UrlAttachments(p.messages[i]) # {} =>
                          /\ \A a \in UrlAttachments(p.messages[i]) :
                                HasKey(db.media, "file_id", a.id)
                          /\ HasKey(db.users, "id", p.messages[i].author.id)
                          /\ GuildRow(db, scope).last_media_timestamp = sts

\* C30: after a channel listing of guild G answered with 429 the loop has
\* slept at least 5 seconds (50 tenths) and is about to list the same G again,
\* with the same guilds left after it; after a listing answered with 200, 403
\* or 404 the loop goes on with the guild that followed G, if there is one, and
\* G is not among the guilds still to list.
C30_ListingRetriedThenNext ==
    listed.guild # NONE =>
        /\ listed.status = 429 =>
              /\ pc = "channels" /\ todo # << >>
              /\ Head(todo).id = listed.guild /\ Tail(todo) = listed.rest
              /\ elapsed >= 50
        /\ listed.status \in {200, 403, 404} =>
              IF listed.rest # << >> THEN pc = "channels" /\ todo = listed.rest
              ELSE pc # "channels"
        /\ \A i \in DOMAIN listed.rest : listed.rest[i].id # listed.guild

C30_Witness ==
    /\ listed.guild = "g1" /\ listed.status = 429
    /\ pc = "channels" /\ Head(todo).id = "g1" /\ Len(todo) = 2
    /\ elapsed = 55

\* C31: in main.py a guild removed after a 403 or 404 channel listing is not
\* searched in the rest of the run: it is neither the scope of the walk in
\* progress or of the last search request, nor among the guilds still to
\* visit, and it has no guilds row, so its cursor is gone with it; and
\* insert_guild after remove_guild, as a later listing does, leaves a row
\* whose cursor columns are both empty, whatever they held before.
C31_RemovedGuildNotSearched ==
    /\ \A g \in removed :
          /\ scope # g /\ last.scope # g
          /\ pc # "channels" => \A i \in DOMAIN todo : todo[i].id # g
          /\ ~HasKey(db.guilds, "id", g)
    /\ \A s \in Scopes \ {DM} :
          HasKey(db.guilds, "id", s) =>
              LET d2 == insert_guild(remove_guild(db, s), s, GuildRow(db, s).name)
              IN  /\ HasKey(d2.guilds, "id", s)
                  /\ GuildRow(d2, s).last_media_timestamp = NULL
                  /\ GuildRow(d2, s).last_message_timestamp = NULL

C31_Witness ==
    /\ Variant(entry) = "main" /\ removed = {"g1"}
    /\ last.scope = "g2" /\ last.outcome = "empty" /\ scope = DM /\ pc = "search"

\* C32: once async_init has run, the guilds table holds exactly one "@me" row;
\* get_guilds() does not return it, so it is not among the guilds to list or
\* to walk, is not the guild of a channel listing and is never removed; and
\* get_guilds(get_dms=True) finds a row, which is that one.
C32_DmRowReserved ==
    (pc # "async_init" \/ runs > 1) =>
        /\ Cardinality({i \in DOMAIN db.guilds : db.guilds[i].id = DM}) = 1
        /\ \A i \in DOMAIN get_guilds(Variant(entry), db) :
              get_guilds(Variant(entry), db)[i].id # DM
        /\ \A i \in DOMAIN todo : todo[i].id # DM
        /\ listed.guild # DM /\ DM \notin removed
        /\ has_dms(db) /\ get_dms(db).id = DM

C32_Witness ==
    /\ Variant(entry) = "main" /\ removed = {"g1", "g2"}
    /\ get_guilds(Variant(entry), db) = << >>
    /\ pc = "search" /\ scope = DM /\ get_dms(db).name = "DMs"

-----------------------------------------------------------------------------
(* dump_to_cdl.py: the run *)

\* the scraper is not running while the dump runs
scraper == <<entry, deep, content, epoch, db, pc, todo, scope, req, page, sts, oi,
             start_count, new_count, elapsed, last, exhausted, lastOp, written,
             calls, listed, faulty, stops, runs, start_files, removed>>

InitCdl ==
    /\ entry = "main"
    /\ deep = FALSE
    /\ content = [s \in Scopes |-> 0]
    /\ epoch = 0
    /\ db = EmptyDb
    /\ pc = "async_init"
    /\ todo = << >>
    /\ scope = NONE
    /\ req = NULL
    /\ page = << >>
    /\ sts = NULL
    /\ oi = 0
    /\ start_count = 0
    /\ new_count = -1
    /\ elapsed = 0
    /\ last = NoLast
    /\ exhausted = {}
    /\ lastOp = NoOp
    /\ written = NULL
    /\ calls = 0
    /\ listed = NoListed
    /\ start_files = {}
    /\ removed = {}
    /\ faulty = FALSE
    /\ stops = 0
    /\ runs = 1
    /\ \E a \in CdlArgs, d \in CdlStores :
          cdl = [pc |-> "main", args |-> a, db |-> d, users |-> << >>,
                 opened |-> FALSE, lines |-> << >>]

\* main(): both --dm and --nsfw, or a --user-id the users table does not hold,
\* end the program before the dumper runs; otherwise dump() opens the output
\* file for writing
CdlMain ==
    /\ cdl.pc = "main"
    /\ cdl' = IF (cdl.args.dm = "yes" /\ cdl.args.nsfw = "yes")
                  \/ (cdl.args.user_id # NONE /\ ~KnownUser(cdl.db, cdl.args.user_id))
              THEN [cdl EXCEPT !.pc = "refused"]
              ELSE [cdl EXCEPT !.pc = "dump", !.opened = TRUE,
                               !.users = CdlGetUsers(cdl.db, cdl.args)]
    /\ UNCHANGED scraper

\* Dumper.dump: one user of the loop
CdlUser ==
    /\ cdl.pc = "dump"
    /\ cdl.users # << >>
    /\ LET u == Head(cdl.users)
           rows == MediaQuery(cdl.db, u.id, cdl.args)
       IN  cdl' = IF ~check_user_has_media(cdl.db, u.id, cdl.args)
                  THEN [cdl EXCEPT !.users = Tail(@)]
                  ELSE [cdl EXCEPT
                          !.lines = @ \o << HeaderLine(u) >> \o UrlLines(rows, cdl.args.fix_cdn),
                          !.users = IF UrlRaises(rows, cdl.args.fix_cdn) THEN @ ELSE Tail(@),
                          !.pc = IF UrlRaises(rows, cdl.args.fix_cdn) THEN "fatal" ELSE "dump"]
    /\ UNCHANGED scraper

\* the loop is over: the file and the connection are closed
CdlClose ==
    /\ cdl.pc = "dump"
    /\ cdl.users = << >>
    /\ cdl' = [cdl EXCEPT !.pc = "done"]
    /\ UNCHANGED scraper

NextCdl ==
    \/ CdlMain
    \/ CdlUser
    \/ CdlClose

SpecCdl == InitCdl /\ [][NextCdl]_vars

\* what the dump is to write for the users, in their order: for a user with
\* rows that match, the header and one url line for each row
RECURSIVE ExpectedKinds(_, _, _)
ExpectedKinds(d, us, a) ==
    IF us = << >> THEN << >>
    ELSE LET rows == MediaQuery(d, Head(us).id, a)
         IN  (IF rows = << >> THEN << >>
              ELSE << HeaderLine(Head(us)) >> \o [i \in DOMAIN rows |-> [kind |-> "url"]])
             \o ExpectedKinds(d, Tail(us), a)

\* the lines of the file, the url lines without their text
Kinds(lines) ==
    [i \in DOMAIN lines |-> IF lines[i].kind = "url" THEN [kind |-> "url"] ELSE lines[i]]

\* C33: when the dump has ended, the output file holds, for the users in
\* enumeration order, the header of each user who has at least one media row
\* that matches the filters, followed by one url line for each such row, and
\* nothing for the other users; and when --dm and --nsfw are both given, or
\* --user-id names no row of users, the file is never opened and nothing is
\* written.
C33_DumpLines ==
    /\ cdl.pc \in {"done", "fatal"} =>
          /\ cdl.opened
          /\ Kinds(cdl.lines) = ExpectedKinds(cdl.db, CdlGetUsers(cdl.db, cdl.args), cdl.args)
    /\ (cdl.pc \notin {"idle", "main"}
          /\ ((cdl.args.dm = "yes" /\ cdl.args.nsfw = "yes")
              \/ (cdl.args.user_id # NONE /\ ~KnownUser(cdl.db, cdl.args.user_id)))) =>
          (cdl.pc = "refused" /\ ~cdl.opened /\ cdl.lines = << >>)

============================================================================
